---------------------------- MODULE Spec2Model ----------------------------
(***************************************************************************)
(* Recipe API (app/recipe/serializers.py): a Recipe row owns Ingredient    *)
(* rows; RecipeSerializer.create and RecipeSerializer.update write them.   *)
(*                                                                         *)
(* The database is one record `db`: the Recipe table (a set of rows keyed  *)
(* by id), the Ingredient table and the Recipe id sequence.  The           *)
(* serializer never reads an ingredient's id and no ordering is declared,  *)
(* so the Ingredient table is a bag of (name, recipe) rows.                *)
(*                                                                         *)
(* Every ORM call of the serializer is one SQL statement, committed on its *)
(* own: serializers.py opens no transaction and Django's connections       *)
(* autocommit unless configured otherwise.                                 *)
(*                                                                         *)
(* Request payloads and validated_data are Python dicts: functions whose   *)
(* DOMAIN is the set of keys present.                                      *)
(*                                                                         *)
(* Spec  : one request at a time; a request is received, handled by one    *)
(*         atomic action (the whole handler), and its response delivered.  *)
(* SpecC : NumClients requests in flight over a store holding one recipe,  *)
(*         each request advancing one SQL statement per step.              *)
(***************************************************************************)
EXTENDS Integers, Sequences, FiniteSets, Bags, TLC

VARIABLES db, request, response, clients

vars == <<db, request, response, clients>>

\* ------------------------------------------------------------- bounds
MaxRecipes == 2
MaxIngredients == 1
NumClients == 2

\* ------------------------------------------------------------- inputs
Names == {"Pizza", "Cheeseburger"}
Descriptions == {"Put it in the oven"}
IngredientNames == {"dough", "cheese"}
RecipeIds == 1..MaxRecipes

EmptyDict == [k \in {} |-> ""]

IngredientLists ==
    UNION { [1..n -> {[name |-> i] : i \in IngredientNames}] : n \in 0..MaxIngredients }

Payloads ==
    { a @@ b @@ c :
        a \in {EmptyDict} \cup {[name |-> n] : n \in Names},
        b \in {EmptyDict} \cup {[description |-> t] : t \in Descriptions},
        c \in {EmptyDict} \cup {[ingredients |-> l] : l \in IngredientLists} }

\* ------------------------------------------------------------- status codes
HTTP_200_OK == 200
HTTP_201_CREATED == 201
HTTP_204_NO_CONTENT == 204
HTTP_400_BAD_REQUEST == 400
HTTP_404_NOT_FOUND == 404
HTTP_500_INTERNAL_SERVER_ERROR == 500

\* ------------------------------------------------------------- ORM statements
\* dict.get(key, default)
DictGet(d, key, default) == IF key \in DOMAIN d THEN d[key] ELSE default

\* Recipe.objects.create(**validated_data): a new row with the next id
RecipeObjectsCreate(d, fields) ==
    LET row == [id |-> d.recipe_seq + 1,
                name |-> fields.name,
                description |-> DictGet(fields, "description", "")]
    IN  [d EXCEPT !.Recipe = @ \cup {row}, !.recipe_seq = @ + 1]

\* mutant: the row is created without its recipe
IngredientObjectsCreate_NoRecipe(d, recipe_id, ingredient) ==
    [d EXCEPT !.Ingredient =
        @ (+) SetToBag({[name |-> ingredient.name, recipe |-> 0]})]

\* Ingredient.objects.create(recipe=recipe, **ingredient)
IngredientObjectsCreate(d, recipe_id, ingredient) ==
    [d EXCEPT !.Ingredient =
        @ (+) SetToBag({[name |-> ingredient.name, recipe |-> recipe_id]})]

\* mutant: the delete is left out
IngredientFilterDelete_Skipped(d, recipe_id) == d

\* mutant: the delete has lost its filter
IngredientFilterDelete_All(d, recipe_id) == [d EXCEPT !.Ingredient = EmptyBag]

\* Ingredient.objects.filter(recipe=instance.id).delete()
IngredientFilterDelete(d, recipe_id) ==
    [d EXCEPT !.Ingredient =
        [r \in {x \in DOMAIN @ : x.recipe /= recipe_id} |-> @[r]]]

\* instance.save(): writes the instance's fields to its row
InstanceSave(d, instance) ==
    [d EXCEPT !.Recipe = {r \in @ : r.id /= instance.id} \cup {instance}]

\* for ingredient in ingredients: Ingredient.objects.create(...)
RECURSIVE CreateIngredients(_, _, _)
CreateIngredients(d, recipe_id, ingredients) ==
    IF ingredients = <<>> THEN d
    ELSE CreateIngredients(IngredientObjectsCreate(d, recipe_id, Head(ingredients)),
                           recipe_id, Tail(ingredients))

\* ------------------------------------------------------------- serializer
\* validated_data after validated_data.pop('ingredients')
WithoutIngredients(validated_data) ==
    [k \in DOMAIN validated_data \ {"ingredients"} |-> validated_data[k]]

\* mutant: the recipe is created and its ingredients are dropped
SerializerCreate_NoIngredients(d, validated_data) ==
    LET d1 == RecipeObjectsCreate(d, WithoutIngredients(validated_data))
    IN  [db |-> d1, id |-> d1.recipe_seq]

\* RecipeSerializer.create(validated_data)
SerializerCreate(d, validated_data) ==
    LET ingredients == validated_data.ingredients
        d1 == RecipeObjectsCreate(d, WithoutIngredients(validated_data))
        recipe_id == d1.recipe_seq
    IN  [db |-> CreateIngredients(d1, recipe_id, ingredients), id |-> recipe_id]

\* instance.name = validated_data.get('name', instance.name); no other
\* field of the instance is assigned
UpdateInstanceFields(instance, validated_data) ==
    [instance EXCEPT !.name = DictGet(validated_data, "name", instance.name)]

\* RecipeSerializer.update(instance, validated_data): `raised` is the
\* KeyError of validated_data.pop('ingredients'), which comes after the
\* delete and before instance.save()
SerializerUpdate(d, instance, validated_data) ==
    LET inst == UpdateInstanceFields(instance, validated_data)
        d1 == IngredientFilterDelete(d, instance.id)
    IN  IF "ingredients" \notin DOMAIN validated_data
        THEN [db |-> d1, raised |-> TRUE]
        ELSE [db |-> InstanceSave(
                        CreateIngredients(d1, instance.id, validated_data.ingredients),
                        inst),
              raised |-> FALSE]

\* ------------------------------------------------------------- validation
\* `ingredients = IngredientSerializer(many=True)`: the field is required
\* unless the serializer is partial (PATCH); the list serializer is declared
\* without allow_empty=False, so a present list of any length passes when
\* each item has a name.
IngredientsFieldValid(data, partial) ==
    IF "ingredients" \in DOMAIN data
    THEN \A i \in 1..Len(data.ingredients) : data.ingredients[i].name /= ""
    ELSE partial

\* Recipe.name is required and non-blank, Recipe.description is optional
ModelFieldsValid(data, partial) ==
    IF "name" \in DOMAIN data THEN data.name /= "" ELSE partial

\* serializer.is_valid()
IsValid(data, partial) ==
    ModelFieldsValid(data, partial) /\ IngredientsFieldValid(data, partial)

\* ------------------------------------------------------------- representation
\* Ingredient.objects.filter(recipe=recipe_id)
IngredientsOf(d, recipe_id) ==
    [r \in {x \in DOMAIN d.Ingredient : x.recipe = recipe_id} |-> d.Ingredient[r]]

IngredientNamesOf(d, recipe_id) == {r.name : r \in DOMAIN IngredientsOf(d, recipe_id)}

RecipeExists(d, recipe_id) == \E r \in d.Recipe : r.id = recipe_id

\* Recipe.objects.get(id=recipe_id)
GetRecipe(d, recipe_id) == CHOOSE r \in d.Recipe : r.id = recipe_id

\* IngredientSerializer(many=True) over the recipe's rows: the nested
\* {name} items, each as often as the recipe has a row of that name
IngredientsRepresentation(d, recipe_id) ==
    [i \in {[name |-> n] : n \in IngredientNamesOf(d, recipe_id)} |->
        CopiesIn([name |-> i.name, recipe |-> recipe_id], d.Ingredient)]

\* RecipeSerializer(...).data with Meta.fields
RecipeRepresentation(d, recipe_id) ==
    LET r == GetRecipe(d, recipe_id)
    IN  [id |-> r.id, name |-> r.name, description |-> r.description,
         ingredients |-> IngredientsRepresentation(d, recipe_id)]

\* the names of a list of {name} items, as a set
NamesIn(ingredients) == {ingredients[i].name : i \in 1..Len(ingredients)}

\* a list of {name} items as a bag
ItemsIn(ingredients) ==
    [x \in {ingredients[i] : i \in 1..Len(ingredients)} |->
        Cardinality({i \in 1..Len(ingredients) : ingredients[i] = x})]

\* ------------------------------------------------------------- views
Result(d, status, body) == [db |-> d, status |-> status, body |-> body]

\* POST /recipes
ViewCreate(d, data) ==
    IF ~IsValid(data, FALSE)
    THEN Result(d, HTTP_400_BAD_REQUEST, EmptyDict)
    ELSE LET c == SerializerCreate(d, data)
         IN  Result(c.db, HTTP_201_CREATED, RecipeRepresentation(c.db, c.id))

\* GET /recipes/{id}
ViewRetrieve(d, recipe_id) ==
    IF ~RecipeExists(d, recipe_id)
    THEN Result(d, HTTP_404_NOT_FOUND, EmptyDict)
    ELSE Result(d, HTTP_200_OK, RecipeRepresentation(d, recipe_id))

\* PATCH /recipes/{id}: an exception of update() leaves what its statements
\* have already committed
ViewPartialUpdate(d, recipe_id, data) ==
    IF ~RecipeExists(d, recipe_id)
    THEN Result(d, HTTP_404_NOT_FOUND, EmptyDict)
    ELSE IF ~IsValid(data, TRUE)
    THEN Result(d, HTTP_400_BAD_REQUEST, EmptyDict)
    ELSE LET u == SerializerUpdate(d, GetRecipe(d, recipe_id), data)
         IN  IF u.raised
             THEN Result(u.db, HTTP_500_INTERNAL_SERVER_ERROR, EmptyDict)
             ELSE Result(u.db, HTTP_200_OK, RecipeRepresentation(u.db, recipe_id))

\* mutant: the Recipe row goes and its Ingredient rows stay
RecipeDelete_NoCascade(d, recipe_id) ==
    [d EXCEPT !.Recipe = {r \in @ : r.id /= recipe_id}]

\* recipe.delete(): the Recipe row and, by the foreign key's cascade, its
\* Ingredient rows
RecipeDelete(d, recipe_id) ==
    [d EXCEPT !.Recipe = {r \in @ : r.id /= recipe_id},
              !.Ingredient = [r \in {x \in DOMAIN @ : x.recipe /= recipe_id} |-> @[r]]]

\* DELETE /recipes/{id}
ViewDestroy(d, recipe_id) ==
    IF ~RecipeExists(d, recipe_id)
    THEN Result(d, HTTP_404_NOT_FOUND, EmptyDict)
    ELSE Result(RecipeDelete(d, recipe_id), HTTP_204_NO_CONTENT, EmptyDict)

\* ------------------------------------------------------------- one request at a time
InitDb == [Recipe |-> {}, Ingredient |-> EmptyBag, recipe_seq |-> 0]

NoInstance == [id |-> 0, name |-> "", description |-> ""]

IdleClient ==
    [pc |-> "idle", op |-> "none", id |-> 0, data |-> EmptyDict,
     instance |-> NoInstance, todo |-> <<>>, status |-> 0, before |-> EmptyBag]

NoRequest == [op |-> "none", id |-> 0, data |-> EmptyDict]

NoResponse == [status |-> 0, body |-> EmptyDict]

Init ==
    /\ db = InitDb
    /\ request = NoRequest
    /\ response = NoResponse
    /\ clients = [c \in 1..NumClients |-> IdleClient]

\* a request arrives: POST carries a payload, PATCH an id and a payload,
\* GET and DELETE an id
Receive(op, recipe_id, data) ==
    /\ request = NoRequest
    /\ op = "create" => db.recipe_seq < MaxRecipes
    /\ request' = [op |-> op, id |-> recipe_id, data |-> data]
    /\ UNCHANGED <<db, response, clients>>

Pending(op) == request.op = op /\ response = NoResponse

Respond(res) ==
    /\ db' = res.db
    /\ response' = [status |-> res.status, body |-> res.body]
    /\ UNCHANGED <<request, clients>>

Create == Pending("create") /\ Respond(ViewCreate(db, request.data))

Retrieve == Pending("retrieve") /\ Respond(ViewRetrieve(db, request.id))

Update == Pending("update") /\ Respond(ViewPartialUpdate(db, request.id, request.data))

Delete == Pending("delete") /\ Respond(ViewDestroy(db, request.id))

\* the response leaves; the next request may arrive
Deliver ==
    /\ response /= NoResponse
    /\ request' = NoRequest
    /\ response' = NoResponse
    /\ UNCHANGED <<db, clients>>

ReceiveCreate == \E data \in Payloads : Receive("create", 0, data)
ReceiveRetrieve == \E recipe_id \in RecipeIds : Receive("retrieve", recipe_id, EmptyDict)
ReceiveUpdate == \E recipe_id \in RecipeIds, data \in Payloads : Receive("update", recipe_id, data)
ReceiveDelete == \E recipe_id \in RecipeIds : Receive("delete", recipe_id, EmptyDict)

Next ==
    \/ ReceiveCreate
    \/ ReceiveRetrieve
    \/ ReceiveUpdate
    \/ ReceiveDelete
    \/ Create
    \/ Retrieve
    \/ Update
    \/ Delete
    \/ Deliver

Spec == Init /\ [][Next]_vars

\* the step that handles the pending request `op`
Handled(op) == request.op = op /\ response = NoResponse /\ response' /= NoResponse

\* a handled request `op` whose response is still in place
Answered(op) == request.op = op /\ response /= NoResponse

\* ------------------------------------------------------------- requests in flight
\* the recipe the store holds when the concurrent requests arrive
FixtureDb ==
    SerializerCreate(InitDb,
        [name |-> "Pizza", ingredients |-> <<[name |-> "dough"]>>]).db

InitC ==
    /\ db = FixtureDb
    /\ request = NoRequest
    /\ response = NoResponse
    /\ clients = [c \in 1..NumClients |-> IdleClient]

Done(cl, status) == [cl EXCEPT !.pc = "done", !.status = status]

\* POST arrives: is_valid(), before create() runs
CReceiveCreate(c, data) ==
    /\ clients[c].pc = "idle"
    /\ LET cl == [clients[c] EXCEPT !.op = "create", !.data = data]
       IN  clients' = [clients EXCEPT ![c] =
               IF IsValid(data, FALSE)
               THEN [cl EXCEPT !.pc = "create_recipe"]
               ELSE Done(cl, HTTP_400_BAD_REQUEST)]
    /\ UNCHANGED <<db, request, response>>

\* PATCH arrives: the instance is read, is_valid(partial), and update()
\* assigns the instance's name in memory
CReceiveUpdate(c, recipe_id, data) ==
    /\ clients[c].pc = "idle"
    /\ LET cl == [clients[c] EXCEPT !.op = "update", !.id = recipe_id, !.data = data]
       IN  clients' = [clients EXCEPT ![c] =
               IF ~RecipeExists(db, recipe_id) THEN Done(cl, HTTP_404_NOT_FOUND)
               ELSE IF ~IsValid(data, TRUE) THEN Done(cl, HTTP_400_BAD_REQUEST)
               ELSE [cl EXCEPT !.pc = "delete",
                               !.instance = UpdateInstanceFields(GetRecipe(db, recipe_id), data),
                               !.before = IngredientsRepresentation(db, recipe_id)]]
    /\ UNCHANGED <<db, request, response>>

\* create(): validated_data.pop('ingredients'); Recipe.objects.create(...)
CCreateRecipe(c) ==
    /\ clients[c].pc = "create_recipe"
    /\ db' = RecipeObjectsCreate(db, WithoutIngredients(clients[c].data))
    /\ clients' = [clients EXCEPT ![c].pc = "insert", ![c].id = db'.recipe_seq,
                                  ![c].todo = clients[c].data.ingredients]
    /\ UNCHANGED <<request, response>>

\* update(): Ingredient.objects.filter(recipe=instance.id).delete(), then
\* validated_data.pop('ingredients'), whose KeyError ends the request
CDelete(c) ==
    /\ clients[c].pc = "delete"
    /\ db' = IngredientFilterDelete(db, clients[c].id)
    /\ clients' = [clients EXCEPT ![c] =
           IF "ingredients" \notin DOMAIN clients[c].data
           THEN Done(clients[c], HTTP_500_INTERNAL_SERVER_ERROR)
           ELSE [clients[c] EXCEPT !.pc = "insert", !.todo = clients[c].data.ingredients]]
    /\ UNCHANGED <<request, response>>

\* one turn of `for ingredient in ingredients`
CInsert(c) ==
    /\ clients[c].pc = "insert"
    /\ clients[c].todo /= <<>>
    /\ db' = IngredientObjectsCreate(db, clients[c].id, Head(clients[c].todo))
    /\ clients' = [clients EXCEPT ![c].todo = Tail(clients[c].todo)]
    /\ UNCHANGED <<request, response>>

\* update(): instance.save(); return instance
CSave(c) ==
    /\ clients[c].pc = "insert"
    /\ clients[c].todo = <<>>
    /\ clients[c].op = "update"
    /\ db' = InstanceSave(db, clients[c].instance)
    /\ clients' = [clients EXCEPT ![c] = Done(clients[c], HTTP_200_OK)]
    /\ UNCHANGED <<request, response>>

\* create(): return recipe
CReturn(c) ==
    /\ clients[c].pc = "insert"
    /\ clients[c].todo = <<>>
    /\ clients[c].op = "create"
    /\ clients' = [clients EXCEPT ![c] = Done(clients[c], HTTP_201_CREATED)]
    /\ UNCHANGED <<db, request, response>>

NextC ==
    \/ \E c \in 1..NumClients, data \in Payloads : CReceiveCreate(c, data)
    \/ \E c \in 1..NumClients, recipe_id \in RecipeIds, data \in Payloads :
            CReceiveUpdate(c, recipe_id, data)
    \/ \E c \in 1..NumClients : CCreateRecipe(c)
    \/ \E c \in 1..NumClients : CDelete(c)
    \/ \E c \in 1..NumClients : CInsert(c)
    \/ \E c \in 1..NumClients : CSave(c)
    \/ \E c \in 1..NumClients : CReturn(c)

SpecC == InitC /\ [][NextC]_vars

\* ------------------------------------------------------------- claims
StoredRecipeIds(d) == {r.id : r \in d.Recipe}

\* C1: an Update of an existing recipe whose payload carries an ingredients
\* list L (the empty list too) answers 200 and leaves the recipe with
\* exactly the ingredient names of L.
C1_UpdateReplacesIngredients ==
    [][ ( /\ Handled("update")
          /\ RecipeExists(db, request.id)
          /\ "ingredients" \in DOMAIN request.data )
        => /\ response'.status = HTTP_200_OK
           /\ IngredientNamesOf(db', request.id) = NamesIn(request.data.ingredients)
           /\ IngredientsRepresentation(db', request.id) = ItemsIn(request.data.ingredients)
      ]_vars

\* an Update with an empty list has answered 200 and the recipe has no ingredient
C1_Witness ==
    /\ Answered("update")
    /\ response.status = HTTP_200_OK
    /\ "ingredients" \in DOMAIN request.data
    /\ request.data.ingredients = <<>>
    /\ IngredientNamesOf(db, request.id) = {}

\* C2 (as claimed): an Update of an existing recipe whose payload has no
\* `ingredients` key leaves the recipe's ingredient rows as they were.
C2_AbsentIngredientsUntouched ==
    [][ ( /\ Handled("update")
          /\ RecipeExists(db, request.id)
          /\ "ingredients" \notin DOMAIN request.data )
        => IngredientsOf(db', request.id) = IngredientsOf(db, request.id)
      ]_vars

\* C3 (as claimed): a Create whose `ingredients` list is absent or empty
\* answers 400 and leaves the store unchanged.
C3_CreateWithoutIngredientsFails ==
    [][ ( /\ Handled("create")
          /\ \/ "ingredients" \notin DOMAIN request.data
             \/ request.data.ingredients = <<>> )
        => /\ response'.status = HTTP_400_BAD_REQUEST
           /\ db' = db
      ]_vars

\* C4: a Create with a name and a non-empty ingredients list answers 201
\* with a recipe whose id was never issued before, whose name and
\* description are the payload's and whose ingredient names are the input
\* names; a Retrieve of that id then answers 200 with the same recipe.
C4_CreateReturnsRetrievableRecipe ==
    [][ ( /\ Handled("create")
          /\ "name" \in DOMAIN request.data
          /\ "ingredients" \in DOMAIN request.data
          /\ request.data.ingredients /= <<>> )
        => /\ response'.status = HTTP_201_CREATED
           /\ response'.body.id > db.recipe_seq
           /\ response'.body.id \notin StoredRecipeIds(db)
           /\ response'.body.name = request.data.name
           /\ response'.body.description = DictGet(request.data, "description", "")
           /\ {i.name : i \in DOMAIN response'.body.ingredients}
                = NamesIn(request.data.ingredients)
           /\ ViewRetrieve(db', response'.body.id)
                = Result(db', HTTP_200_OK, response'.body)
      ]_vars

\* a Create has answered 201 with a recipe that has ingredients
C4_Witness ==
    /\ Answered("create")
    /\ response.status = HTTP_201_CREATED
    /\ DOMAIN response.body.ingredients /= {}
    /\ "description" \in DOMAIN request.data

\* C5: a Delete that answers 204 leaves neither the recipe nor an
\* ingredient owned by it, and an id that was issued and is gone stays
\* gone over every later step (Creates included): a Retrieve of it answers
\* 404 and no ingredient is owned by it.
C5_DeletedStaysDeleted ==
    [][ /\ ( Handled("delete") /\ response'.status = HTTP_204_NO_CONTENT )
           => /\ ~RecipeExists(db', request.id)
              /\ DOMAIN IngredientsOf(db', request.id) = {}
        /\ \A a \in RecipeIds :
             ( a <= db.recipe_seq /\ ~RecipeExists(db, a) )
             => /\ ViewRetrieve(db', a).status = HTTP_404_NOT_FOUND
                /\ DOMAIN IngredientsOf(db', a) = {}
      ]_vars

\* a Create has answered 201 after an earlier recipe was deleted
C5_Witness ==
    /\ Answered("create")
    /\ response.status = HTTP_201_CREATED
    /\ \E a \in RecipeIds : a < response.body.id /\ ~RecipeExists(db, a)

\* C6: an Update or a Delete of recipe A leaves every other stored recipe
\* B with the same row and the same ingredient rows.
C6_OtherRecipesUnchanged ==
    [][ ( Handled("update") \/ Handled("delete") )
        => \A b \in StoredRecipeIds(db) \ {request.id} :
             /\ RecipeExists(db', b)
             /\ GetRecipe(db', b) = GetRecipe(db, b)
             /\ IngredientsOf(db', b) = IngredientsOf(db, b)
      ]_vars

\* an Update of A has answered 200 while another recipe B holds an
\* ingredient of the same name as one A now has
C6_Witness ==
    /\ Answered("update")
    /\ response.status = HTTP_200_OK
    /\ \E b \in StoredRecipeIds(db) \ {request.id} :
         IngredientNamesOf(db, b) \cap IngredientNamesOf(db, request.id) /= {}

\* C7 (as claimed): while one Create or Update is the only request in
\* flight, its recipe's ingredients are the complete set from before the
\* request or the complete set it writes; after an Update that failed
\* partway they are those from before.
C7_NoPartialIngredientSet ==
    \A c \in 1..NumClients :
      ( \A o \in 1..NumClients \ {c} : clients[o].pc = "idle" )
      => LET cl == clients[c]
             now == IngredientsRepresentation(db, cl.id)
             written == IF "ingredients" \in DOMAIN cl.data
                        THEN ItemsIn(cl.data.ingredients) ELSE cl.before
         IN  /\ ( cl.op = "update" /\ cl.pc \in {"delete", "insert"} )
                  => now \in {cl.before, written}
             /\ ( cl.op = "create" /\ cl.pc = "insert" )
                  => now = written
             /\ ( cl.op = "update" /\ cl.pc = "done"
                  /\ cl.status = HTTP_500_INTERNAL_SERVER_ERROR )
                  => now = cl.before

\* C8 (as claimed, for the Updates answered 200): an Update of an existing
\* recipe stores the payload's name and description where present, keeps
\* them where absent, and keeps the id.
C8_UpdateStoresPresentFields ==
    [][ ( /\ Handled("update")
          /\ RecipeExists(db, request.id)
          /\ response'.status = HTTP_200_OK )
        => /\ RecipeExists(db', request.id)
           /\ GetRecipe(db', request.id) =
                [id |-> request.id,
                 name |-> DictGet(request.data, "name", GetRecipe(db, request.id).name),
                 description |-> DictGet(request.data, "description",
                                         GetRecipe(db, request.id).description)]
      ]_vars

C10_ConcurrentUpdatesLeaveOneList ==
    \A c1, c2 \in 1..NumClients :
      ( /\ c1 /= c2
        /\ \A o \in 1..NumClients \ {c1, c2} : clients[o].pc = "idle"
        /\ clients[c1].op = "update" /\ clients[c2].op = "update"
        /\ clients[c1].id = clients[c2].id
        /\ clients[c1].pc = "done" /\ clients[c2].pc = "done"
        /\ clients[c1].status = HTTP_200_OK /\ clients[c2].status = HTTP_200_OK )
      => IngredientNamesOf(db, clients[c1].id)
           \in {NamesIn(clients[c1].data.ingredients),
                NamesIn(clients[c2].data.ingredients)}

=============================================================================
